---------------------------- MODULE Spec2Model ----------------------------
(***************************************************************************)
(* Model of LobView's BinanceClient (src/LobView/src/api.rs): the order    *)
(* book store, the per-symbol broadcast channels, subscribe, the           *)
(* connection task (run_websocket / handle_ws_message) and the level merge *)
(* update_levels.                                                          *)
(*                                                                         *)
(* Numbers: prices and quantities are f64 in the source.  The model draws  *)
(* the wire strings from small alphabets and parses them to integers; an   *)
(* unparsable string parses to 0 (unwrap_or(0.0)).  Only finite numbers    *)
(* are drawn ("NaN"/"inf" strings are outside the modelled alphabet).      *)
(* The timestamp field of OrderBook is wall-clock time and is left out.    *)
(***************************************************************************)
EXTENDS Integers, Sequences, FiniteSets, TLC

\* ---------------------------------------------------------------- bounds
\* Highest update id the exchange reaches.
MaxUpdateId == 2
\* Total number of subscribe calls made by all clients.
MaxSubscribes == 2
\* Slots of a broadcast channel (broadcast::channel(100) in the source, scaled).
ChannelCapacity == 2
\* Slots of the mpsc channel to the connection task (mpsc::channel(100), scaled).
QueueCapacity == 1
\* Longest list of [price, quantity] pairs drawn for one side (SpecLevels).
MaxPairs == 2
MaxGapId == 3
InboxCapacity == 2

\* ------------------------------------------------------------- alphabets
Clients == {"c1", "c2"}
\* The callers that call subscribe, and those that attach a receiver.
Subscribers == {"c1"}
Consumers == {"c1", "c2"}
\* Symbol strings a caller may pass.
SymbolArgs == {"", "btc", "BTC"}
\* Symbol strings the exchange puts in the "s" field of a depth update.
WireSymbols == {"BTC", "ETH"}
\* Lower-case symbols: the keys of both maps.
Keys == {"btc", "eth"}

\* str::to_lowercase on the modelled symbol strings.
ToLower(s) ==
    CASE s = "BTC" -> "btc"
      [] s = "ETH" -> "eth"
      [] OTHER -> s

\* Price and quantity strings as they come on the wire.
PriceStrings == {"1", "2", "1.0", "x"}
QuantityStrings == {"0", "1", "2", "x"}

\* str::parse::<f64>().unwrap_or(0.0): "1" and "1.0" are the same number and
\* a string that is no number gives 0.
ParseF64(s) ==
    CASE s = "0" -> 0
      [] s = "1" -> 1
      [] s = "1.0" -> 1
      [] s = "2" -> 2
      [] OTHER -> 0

NoBook == [none |-> TRUE]
NoStream == [none |-> TRUE]
NoRx == [none |-> TRUE]

\* ------------------------------------------------------- pure functions
OrderBookLevel(p, q) == [price |-> p, quantity |-> q]

\* The comparator of sort_by: TRUE when a must come strictly before b.
Before(a, b, is_bid) ==
    IF is_bid THEN a.price > b.price ELSE a.price < b.price

RECURSIVE InsertSorted(_, _, _)
InsertSorted(s, x, is_bid) ==
    IF s = <<>> THEN <<x>>
    ELSE IF Before(x, Head(s), is_bid) THEN <<x>> \o s
    ELSE <<Head(s)>> \o InsertSorted(Tail(s), x, is_bid)

RECURSIVE SortFrom(_, _, _)
SortFrom(done, rest, is_bid) ==
    IF rest = <<>> THEN done
    ELSE SortFrom(InsertSorted(done, Head(rest), is_bid), Tail(rest), is_bid)

\* A mutant of sort_by: the side is left in insertion order.
sort_by_none(levels, is_bid) == levels

\* Vec::sort_by with the price comparator: a stable sort, descending for
\* bids and ascending for asks.
sort_by(levels, is_bid) == SortFrom(<<>>, levels, is_bid)

\* Index of the first level at `price`, 0 when there is none.
FirstAt(levels, price) ==
    IF \E i \in 1..Len(levels) : levels[i].price = price
    THEN CHOOSE i \in 1..Len(levels) :
            /\ levels[i].price = price
            /\ \A j \in 1..(i - 1) : levels[j].price # price
    ELSE 0

\* A mutant of ApplyPair: a new level is pushed without looking for an
\* existing one.
ApplyPairPush(levels, pair) ==
    LET price == ParseF64(pair[1])
        quantity == ParseF64(pair[2])
    IN  IF quantity = 0
        THEN SelectSeq(levels, LAMBDA l : l.price # price)
        ELSE Append(levels, OrderBookLevel(price, quantity))

\* A mutant of ApplyPair: quantity 0 is stored like any other quantity.
ApplyPairStoresZero(levels, pair) ==
    LET price == ParseF64(pair[1])
        quantity == ParseF64(pair[2])
        i == FirstAt(levels, price)
    IN  IF i # 0
        THEN [levels EXCEPT ![i].quantity = quantity]
        ELSE Append(levels, OrderBookLevel(price, quantity))

\* One pass of the loop of update_levels over one [price, quantity] pair.
ApplyPair(levels, pair) ==
    LET price == ParseF64(pair[1])
        quantity == ParseF64(pair[2])
        i == FirstAt(levels, price)
    IN  IF quantity = 0
        THEN SelectSeq(levels, LAMBDA l : l.price # price)
        ELSE IF i # 0
        THEN [levels EXCEPT ![i].quantity = quantity]
        ELSE Append(levels, OrderBookLevel(price, quantity))

RECURSIVE ApplyPairs(_, _)
ApplyPairs(levels, updates) ==
    IF updates = <<>> THEN levels
    ELSE ApplyPairs(ApplyPair(levels, Head(updates)), Tail(updates))

\* BinanceClient::update_levels: the loop, then the sort.
update_levels(levels, updates, is_bid) ==
    sort_by(ApplyPairs(levels, updates), is_bid)

RECURSIVE ParseSide(_)
\* The loops of fetch_orderbook_snapshot: levels with quantity > 0 are kept.
ParseSide(raw) ==
    IF raw = <<>> THEN <<>>
    ELSE LET price == ParseF64(Head(raw)[1])
             quantity == ParseF64(Head(raw)[2])
         IN  (IF quantity > 0 THEN <<OrderBookLevel(price, quantity)>> ELSE <<>>)
                 \o ParseSide(Tail(raw))

\* The OrderBook built by fetch_orderbook_snapshot from a REST response.
fetch_orderbook_snapshot(symbol, response) ==
    [symbol |-> symbol,
     last_update_id |-> response.lastUpdateId,
     bids |-> sort_by(ParseSide(response.bids), TRUE),
     asks |-> sort_by(ParseSide(response.asks), FALSE),
     update_type |-> "Snapshot"]

\* A mutant of Accepts: an update is taken only when it continues the book,
\* its first id being the one after the book's last.
AcceptsContiguous(orderbook, update) ==
    /\ ~(update.final_update_id <= orderbook.last_update_id)
    /\ update.first_update_id = orderbook.last_update_id + 1

\* A mutant of Accepts: every update is taken, whatever its id.
AcceptsAny(orderbook, update) == update.final_update_id >= 0

\* A mutant of Accepts: an update with the same id is taken again.
AcceptsEqual(orderbook, update) ==
    update.final_update_id >= orderbook.last_update_id

\* The staleness test of handle_ws_message, negated: the update is applied.
Accepts(orderbook, update) ==
    ~(update.final_update_id <= orderbook.last_update_id)

\* The book after an accepted depth update (handle_ws_message).
ApplyDepthUpdate(orderbook, update) ==
    [orderbook EXCEPT
        !.last_update_id = update.final_update_id,
        !.bids = update_levels(orderbook.bids, update.bids, TRUE),
        !.asks = update_levels(orderbook.asks, update.asks, FALSE),
        !.update_type = "Delta"]


\* ------------------------------------------------- broadcast channel
\* tokio::sync::broadcast as the source uses it: a channel keeps its last
\* ChannelCapacity events; `tail` counts the events ever stored, so the
\* stored events have positions tail - Len(buf) .. tail - 1.
NewChannel == [tail |-> 0, buf |-> <<>>]

Oldest(ch) == ch.tail - Len(ch.buf)

EventAt(ch, pos) == ch.buf[pos - Oldest(ch) + 1]

\* A mutant of Store: a full channel drops the new event and keeps the old.
StoreDropNewest(ch, event) ==
    IF Len(ch.buf) >= ChannelCapacity
    THEN [tail |-> ch.tail + 1, buf |-> ch.buf]
    ELSE [tail |-> ch.tail + 1, buf |-> Append(ch.buf, event)]

\* The channel after one more event was stored: the oldest one is evicted
\* when the buffer is full.
Store(ch, event) ==
    IF Len(ch.buf) >= ChannelCapacity
    THEN [tail |-> ch.tail + 1, buf |-> Append(Tail(ch.buf), event)]
    ELSE [tail |-> ch.tail + 1, buf |-> Append(ch.buf, event)]

\* broadcast::Sender::send: Err (nothing stored) when no receiver is
\* attached, else the event is stored for all receivers.
Send(ch, event, rx_cnt) ==
    IF rx_cnt = 0 THEN ch ELSE Store(ch, event)

\* A mutant of OrderBookEvent: the event carries the book without its levels.
OrderBookEventNoLevels(book, kind) ==
    [orderbook |-> [book EXCEPT !.bids = <<>>, !.asks = <<>>], event_type |-> kind]

\* A mutant of OrderBookEvent: every event is marked Delta.
OrderBookEventDelta(book, kind) == [orderbook |-> book, event_type |-> "Delta"]

OrderBookEvent(book, kind) == [orderbook |-> book, event_type |-> kind]

\* The history's record of one send: the event's kind and update id, and the
\* position the channel stored it at (-1: no receiver, nothing stored).
Published(event, pos) ==
    [event_type |-> event.event_type,
     last_update_id |-> event.orderbook.last_update_id,
     pos |-> pos]

DistinctPrices(side) ==
    \A i, j \in 1..Len(side) : i # j => side[i].price # side[j].price

\* The history's record of an installed snapshot: its id, whether each of
\* its sides has distinct prices, and how many updates had been accepted for
\* the symbol before it.
Installed(book, n) ==
    [last_update_id |-> book.last_update_id,
     distinct |-> DistinctPrices(book.bids) /\ DistinctPrices(book.asks),
     accepted_before |-> n]

\* ---------------------------------------------------------------- state
VARIABLES
    \* BinanceClient
    orderbooks,           \* Mutex<HashMap<String, OrderBook>>
    orderbook_streams,    \* Mutex<HashMap<String, broadcast::Sender>>
    store_lock,           \* who holds the orderbooks mutex across a step
    ws_queue,             \* the mpsc channel ws_sender -> ws_receiver
    \* the connection task (run_websocket)
    ws_state,             \* "connecting", "open" or "closed"
    active_subscriptions, \* Vec<String> of run_websocket
    ws_pc,                \* "select" or "publish" (inside handle_ws_message)
    orderbook_clone,      \* the local of handle_ws_message
    sent_frames,          \* SUBSCRIBE frames written to the socket, in order
    \* callers
    pc,                   \* where each caller stands inside subscribe
    symbol_lower,         \* the local of subscribe
    snapshot,             \* the local of subscribe
    result,               \* what the caller's last subscribe call returned
    rx,                   \* the caller's broadcast::Receiver, or NoRx
    \* the exchange
    exchange_id,          \* the exchange's current update id
    \* history
    published,            \* per key: a record of every send, in order
    accepted,             \* per key: final ids of the accepted updates, in order
    installed,            \* per key: a record of the last installed snapshot
    received,             \* per caller: what its receiver's last recv returned
    attach,               \* per caller: how its receiver was obtained
    my_event,             \* per caller: index in published of its last snapshot
    stream_log,           \* per key: was subscribe called, channels created
    subscribes,           \* number of subscribe calls so far
    last_step,            \* what the last step did to the store
    \* update_levels on its own (SpecLevels)
    levels, is_bid, updates, levels_before, called,
    \* the two mutexes on their own (SpecLocks)
    held,                 \* per mutex: the task that holds it, or "free"
    at,                   \* per task: the statement it stands at
    \* the socket as a source of select! (SpecSelect)
    inbox,                \* frames that have arrived and are not yet taken
    takes                 \* number of frames taken so far, modulo 2

sysvars == <<orderbooks, orderbook_streams, store_lock, ws_queue, ws_state,
             active_subscriptions, ws_pc, orderbook_clone, sent_frames, pc,
             symbol_lower, snapshot, result, rx, exchange_id, published,
             accepted, installed, received, attach, my_event, stream_log,
             subscribes, last_step>>
levelvars == <<levels, is_bid, updates, levels_before, called>>
lockvars == <<held, at>>
selectvars == <<inbox, takes>>
fnvars == <<levelvars, lockvars, selectvars>>
vars == <<sysvars, fnvars>>

wsvars == <<ws_queue, ws_state, active_subscriptions, ws_pc, orderbook_clone,
            sent_frames>>
callvars == <<pc, symbol_lower, snapshot, result>>
histvars == <<published, accepted, installed, received, attach, my_event,
              stream_log>>

NoItem == [none |-> TRUE]
NoStep == [op |-> "none"]

\* Number of receivers attached to the channel of key k.
ReceiverCount(k) ==
    Cardinality({c \in Clients : rx[c] # NoRx /\ rx[c].key = k})

SysInit ==
    /\ orderbooks = [k \in Keys |-> NoBook]
    /\ orderbook_streams = [k \in Keys |-> NoStream]
    /\ store_lock = "free"
    /\ ws_queue = <<>>
    /\ ws_state = "connecting"
    /\ active_subscriptions = <<>>
    /\ ws_pc = "select"
    /\ orderbook_clone = NoBook
    /\ sent_frames = <<>>
    /\ pc = [c \in Clients |-> "idle"]
    /\ symbol_lower = [c \in Clients |-> ""]
    /\ snapshot = [c \in Clients |-> NoBook]
    /\ result = [c \in Clients |-> "none"]
    /\ rx = [c \in Clients |-> NoRx]
    /\ exchange_id = 1
    /\ published = [k \in Keys |-> <<>>]
    /\ accepted = [k \in Keys |-> <<>>]
    /\ installed = [k \in Keys |-> NoBook]
    /\ received = [c \in Clients |-> NoItem]
    /\ attach = [c \in Clients |-> [how |-> "none"]]
    /\ my_event = [c \in Clients |-> 0]
    /\ stream_log = [k \in Keys |-> [requested |-> FALSE, created |-> 0]]
    /\ subscribes = 0
    /\ last_step = NoStep

FnIdle ==
    /\ levels = <<>>
    /\ is_bid = TRUE
    /\ updates = <<>>
    /\ levels_before = <<>>
    /\ called = FALSE
    /\ held = [store |-> "free", streams |-> "free"]
    /\ at = [c1 |-> "idle", c2 |-> "idle", ws |-> "select"]
    /\ inbox = <<>>
    /\ takes = 0

Init == SysInit /\ FnIdle

\* ------------------------------------------- update_levels on its own
\* Every list of at most n [price, quantity] string pairs.
RECURSIVE PairLists(_)
PairLists(n) ==
    IF n = 0 THEN { <<>> }
    ELSE LET shorter == PairLists(n - 1)
         IN  shorter \cup
             { Append(l, <<p, q>>) :
                 l \in {x \in shorter : Len(x) = n - 1},
                 p \in PriceStrings, q \in QuantityStrings }

\* A side as fetch_orderbook_snapshot leaves it, for any raw side.
InitLevels ==
    /\ SysInit
    /\ is_bid \in BOOLEAN
    /\ levels \in { sort_by(ParseSide(raw), is_bid) : raw \in PairLists(MaxPairs) }
    /\ updates = <<>>
    /\ levels_before = levels
    /\ called = FALSE
    /\ held = [store |-> "free", streams |-> "free"]
    /\ at = [c1 |-> "idle", c2 |-> "idle", ws |-> "select"]
    /\ inbox = <<>>
    /\ takes = 0

\* One call update_levels(&mut levels, &updates, is_bid).
UpdateLevels(u) ==
    /\ ~called
    /\ called' = TRUE
    /\ levels_before' = levels
    /\ updates' = u
    /\ levels' = update_levels(levels, u, is_bid)
    /\ UNCHANGED <<is_bid, sysvars, lockvars, selectvars>>

NextLevels == ~called /\ \E u \in PairLists(MaxPairs) : UpdateLevels(u)

SpecLevels == InitLevels /\ [][NextLevels]_vars

\* ------------------------------------------------------------- inputs
\* REST responses and depth updates the exchange may produce in Spec.  The
\* sides are few but cover: an empty side, an insert, a change, a removal,
\* a price listed twice, an unparsable price or quantity, and (snapshots)
\* two levels at one price.
SnapshotBodies ==
    { [bids |-> << <<"1", "1">>, <<"2", "2">> >>, asks |-> << <<"2", "1">> >>],
      [bids |-> << <<"1", "1">>, <<"1.0", "2">> >>, asks |-> << <<"x", "1">>, <<"2", "0">> >>] }

UpdateBodies ==
    { [bids |-> << <<"1", "0">> >>, asks |-> << <<"2", "x">>, <<"1", "2">> >>],
      [bids |-> << <<"2", "1">>, <<"x", "2">>, <<"2", "2">> >>, asks |-> <<>>] }

\* Frames that are no well-formed depth update.
FrameKinds == {"no_marker", "parse_error", "ping"}

\* The JSON body of GET /depth at the exchange's current update id.
Response(body) ==
    [lastUpdateId |-> exchange_id, bids |-> body.bids, asks |-> body.asks]

\* The depth updates the exchange may have on the wire: any update it has
\* produced so far (ids U..u, u at most its current id), in any order and
\* any number of times.
DepthUpdatesOf(symbols, bodies) ==
    UNION { { [symbol |-> s, first_update_id |-> first,
               final_update_id |-> final, bids |-> b.bids, asks |-> b.asks] :
                 s \in symbols, b \in bodies, first \in 1..final } :
            final \in 1..exchange_id }

DepthUpdates == DepthUpdatesOf(WireSymbols, UpdateBodies)

\* HashMap::get with an arbitrary string: only lower-case keys are present.
Get(map, s, none) == IF s \in Keys THEN map[s] ELSE none

\* A mutant of SubscribeInvalid: the symbol is checked only after it was
\* handed to the connection task.
SubscribeInvalidLate(c, symbol) ==
    /\ pc[c] = "idle"
    /\ symbol = ""
    /\ subscribes < MaxSubscribes
    /\ subscribes' = subscribes + 1
    /\ ws_queue' = Append(ws_queue, symbol)
    /\ result' = [result EXCEPT ![c] = "InvalidSymbol"]
    /\ last_step' = NoStep
    /\ UNCHANGED <<orderbooks, orderbook_streams, store_lock, ws_state,
                   active_subscriptions, ws_pc, orderbook_clone, sent_frames,
                   pc, symbol_lower, snapshot, rx, exchange_id, histvars,
                   fnvars>>

\* ------------------------------------------------------------ subscribe
\* subscribe(""): InvalidSymbol, before anything else.
SubscribeInvalid(c, symbol) ==
    /\ pc[c] = "idle"
    /\ symbol = ""
    /\ subscribes < MaxSubscribes
    /\ subscribes' = subscribes + 1
    /\ result' = [result EXCEPT ![c] = "InvalidSymbol"]
    /\ last_step' = NoStep
    /\ UNCHANGED <<orderbooks, orderbook_streams, store_lock, wsvars, pc,
                   symbol_lower, snapshot, rx, exchange_id, histvars, fnvars>>

\* A mutant of contains_key: the channel is never found.
contains_key_never(streams, k) == FALSE

\* streams.contains_key(&symbol_lower), under the streams lock.
contains_key(streams, k) == streams[k] # NoStream

\* subscribe(symbol), symbol not empty: the symbol is lower-cased and its
\* channel is created under the streams lock unless it exists.
SubscribeBegin(c, symbol) ==
    /\ pc[c] = "idle"
    /\ symbol # ""
    /\ subscribes < MaxSubscribes
    /\ subscribes' = subscribes + 1
    /\ LET k == ToLower(symbol)
       IN  /\ symbol_lower' = [symbol_lower EXCEPT ![c] = k]
           /\ orderbook_streams' =
                 IF ~contains_key(orderbook_streams, k)
                 THEN [orderbook_streams EXCEPT ![k] = NewChannel]
                 ELSE orderbook_streams
           /\ stream_log' =
                 [stream_log EXCEPT ![k] =
                     [requested |-> TRUE,
                      created |-> IF ~contains_key(orderbook_streams, k)
                                  THEN @.created + 1 ELSE @.created]]
    /\ pc' = [pc EXCEPT ![c] = "fetch"]
    /\ result' = [result EXCEPT ![c] = "pending"]
    /\ last_step' = NoStep
    /\ UNCHANGED <<orderbooks, store_lock, wsvars, snapshot, rx, exchange_id,
                   published, accepted, installed, received, attach, my_event,
                   fnvars>>

\* fetch_orderbook_snapshot(...).await? returns Ok: the response is turned
\* into an OrderBook held in the local `snapshot`.
SubscribeFetchOk(c, body) ==
    /\ pc[c] = "fetch"
    /\ snapshot' = [snapshot EXCEPT
                       ![c] = fetch_orderbook_snapshot(symbol_lower[c], Response(body))]
    /\ pc' = [pc EXCEPT ![c] = "install"]
    /\ last_step' = NoStep
    /\ UNCHANGED <<orderbooks, orderbook_streams, store_lock, wsvars,
                   symbol_lower, result, rx, exchange_id, histvars, subscribes,
                   fnvars>>

\* A mutant of SubscribeFetchErr: the symbol is handed to the connection
\* task although the fetch failed.
SubscribeFetchErrHandsOff(c) ==
    /\ pc[c] = "fetch"
    /\ pc' = [pc EXCEPT ![c] = "idle"]
    /\ result' = [result EXCEPT ![c] = "HttpError"]
    /\ ws_queue' = Append(ws_queue, symbol_lower[c])
    /\ last_step' = NoStep
    /\ UNCHANGED <<orderbooks, orderbook_streams, store_lock, ws_state,
                   active_subscriptions, ws_pc, orderbook_clone, sent_frames,
                   symbol_lower, snapshot, rx, exchange_id, histvars, subscribes,
                   fnvars>>

\* fetch_orderbook_snapshot(...).await? returns Err: subscribe returns it.
SubscribeFetchErr(c) ==
    /\ pc[c] = "fetch"
    /\ pc' = [pc EXCEPT ![c] = "idle"]
    /\ result' = [result EXCEPT ![c] = "HttpError"]
    /\ last_step' = NoStep
    /\ UNCHANGED <<orderbooks, orderbook_streams, store_lock, wsvars,
                   symbol_lower, snapshot, rx, exchange_id, histvars, subscribes,
                   fnvars>>

\* A mutant of insert: a book that is already stored is kept.
insert_if_absent(map, k, v) ==
    IF map[k] = NoBook THEN [map EXCEPT ![k] = v] ELSE map

\* HashMap::insert: the value stored under k is replaced.
insert(map, k, v) == [map EXCEPT ![k] = v]

\* The store lock is taken and the snapshot inserted.
SubscribeInstall(c) ==
    /\ pc[c] = "install"
    /\ store_lock = "free"
    /\ store_lock' = c
    /\ orderbooks' = insert(orderbooks, symbol_lower[c], snapshot[c])
    /\ installed' = [installed EXCEPT ![symbol_lower[c]] =
                        Installed(snapshot[c], Len(accepted[symbol_lower[c]]))]
    /\ pc' = [pc EXCEPT ![c] = "publish"]
    /\ last_step' = NoStep
    /\ UNCHANGED <<orderbook_streams, wsvars, symbol_lower, snapshot, result,
                   rx, exchange_id, published, accepted, received, attach,
                   my_event, stream_log, subscribes, fnvars>>

\* Still under the store lock the Snapshot event is sent on the channel
\* obtained at the start (the result of send is only logged); then the lock
\* is released.
SubscribePublish(c) ==
    /\ pc[c] = "publish"
    /\ store_lock = c
    /\ LET k == symbol_lower[c]
           event == OrderBookEvent(snapshot[c], "Snapshot")
           n == ReceiverCount(k)
       IN  /\ orderbook_streams' =
                 [orderbook_streams EXCEPT ![k] = Send(@, event, n)]
           /\ published' =
                 [published EXCEPT ![k] =
                     Append(@, Published(event, IF n = 0 THEN -1
                                                ELSE orderbook_streams[k].tail))]
           /\ my_event' = [my_event EXCEPT ![c] = Len(published[k]) + 1]
    /\ store_lock' = "free"
    /\ pc' = [pc EXCEPT ![c] = "handoff"]
    /\ last_step' = NoStep
    /\ UNCHANGED <<stream_log, orderbooks, wsvars, symbol_lower, snapshot, result, rx,
                   exchange_id, accepted, installed, received, attach,
                   subscribes, fnvars>>

\* ws_sender.send(symbol_lower).await succeeds: the symbol is queued for
\* the connection task (the call waits while the queue is full).
SubscribeHandoff(c) ==
    /\ pc[c] = "handoff"
    /\ ws_state # "closed"
    /\ Len(ws_queue) < QueueCapacity
    /\ ws_queue' = Append(ws_queue, symbol_lower[c])
    /\ pc' = [pc EXCEPT ![c] = "idle"]
    /\ result' = [result EXCEPT ![c] = "Ok"]
    /\ last_step' = NoStep
    /\ UNCHANGED <<orderbooks, orderbook_streams, store_lock, ws_state,
                   active_subscriptions, ws_pc, orderbook_clone, sent_frames,
                   symbol_lower, snapshot, rx, exchange_id, histvars,
                   subscribes, fnvars>>

\* A mutant of SubscribeHandoffErr: the failed send is not reported.
SubscribeHandoffErrIgnored(c) ==
    /\ pc[c] = "handoff"
    /\ ws_state = "closed"
    /\ pc' = [pc EXCEPT ![c] = "idle"]
    /\ result' = [result EXCEPT ![c] = "Ok"]
    /\ last_step' = NoStep
    /\ UNCHANGED <<orderbooks, orderbook_streams, store_lock, wsvars,
                   symbol_lower, snapshot, rx, exchange_id, histvars,
                   subscribes, fnvars>>

\* ws_sender.send fails because the connection task has dropped the
\* receiving end: subscribe returns ChannelError.
SubscribeHandoffErr(c) ==
    /\ pc[c] = "handoff"
    /\ ws_state = "closed"
    /\ pc' = [pc EXCEPT ![c] = "idle"]
    /\ result' = [result EXCEPT ![c] = "ChannelError"]
    /\ last_step' = NoStep
    /\ UNCHANGED <<orderbooks, orderbook_streams, store_lock, wsvars,
                   symbol_lower, snapshot, rx, exchange_id, histvars,
                   subscribes, fnvars>>

\* ----------------------------------------------------- orderbook_stream
\* orderbook_stream(symbol) finds the channel: a receiver is attached that
\* sees the events sent from now on.  (A caller keeps one receiver.)
OrderbookStream(c, symbol) ==
    /\ pc[c] = "idle"
    /\ rx[c] = NoRx
    /\ Get(orderbook_streams, symbol, NoStream) # NoStream
    /\ rx' = [rx EXCEPT ![c] = [key |-> symbol,
                                next |-> orderbook_streams[symbol].tail]]
    /\ attach' = [attach EXCEPT ![c] =
                     [how |-> IF result[c] = "Ok" /\ symbol_lower[c] = symbol
                              THEN "after_subscribe" ELSE "other",
                      pos |-> orderbook_streams[symbol].tail]]
    /\ result' = [result EXCEPT ![c] = "none"]
    /\ last_step' = NoStep
    /\ UNCHANGED <<stream_log, orderbooks, orderbook_streams, store_lock, wsvars, pc,
                   symbol_lower, snapshot, exchange_id, published, accepted,
                   installed, received, my_event, subscribes, fnvars>>

\* A mutant of OrderbookStreamErr: a channel is created for the symbol.
OrderbookStreamCreates(c, symbol) ==
    /\ pc[c] = "idle"
    /\ rx[c] = NoRx
    /\ Get(orderbook_streams, symbol, NoStream) = NoStream
    /\ orderbook_streams' =
          IF symbol \in Keys
          THEN [orderbook_streams EXCEPT ![symbol] = NewChannel]
          ELSE orderbook_streams
    /\ attach' = [attach EXCEPT ![c] = [how |-> "NoOrderBookStream"]]
    /\ last_step' = NoStep
    /\ UNCHANGED <<orderbooks, store_lock, wsvars, callvars, rx, exchange_id,
                   published, accepted, installed, received, my_event,
                   stream_log, subscribes, fnvars>>

\* orderbook_stream(symbol) finds no channel: NoOrderBookStream.
OrderbookStreamErr(c, symbol) ==
    /\ pc[c] = "idle"
    /\ rx[c] = NoRx
    /\ Get(orderbook_streams, symbol, NoStream) = NoStream
    /\ attach' = [attach EXCEPT ![c] = [how |-> "NoOrderBookStream"]]
    /\ last_step' = NoStep
    /\ UNCHANGED <<stream_log, orderbooks, orderbook_streams, store_lock, wsvars, callvars,
                   rx, exchange_id, published, accepted, installed, received,
                   my_event, subscribes, fnvars>>

\* get_orderbook(symbol): a point read of the store under its lock; the
\* symbol is looked up as given.
GetOrderbook(c, symbol) ==
    /\ pc[c] = "idle"
    /\ store_lock = "free"
    /\ last_step' = [op |-> "get_orderbook", symbol |-> symbol,
                     book |-> Get(orderbooks, symbol, NoBook)]
    /\ UNCHANGED <<orderbooks, orderbook_streams, store_lock, wsvars, callvars,
                   rx, exchange_id, histvars, subscribes, fnvars>>

\* Receiver::recv returns an event: the next one this receiver has not seen.
Recv(c) ==
    /\ rx[c] # NoRx
    /\ LET ch == orderbook_streams[rx[c].key]
       IN  /\ rx[c].next >= Oldest(ch)
           /\ rx[c].next < ch.tail
           /\ received' = [received EXCEPT ![c] =
                 [pos |-> rx[c].next, event |-> EventAt(ch, rx[c].next)]]
           /\ rx' = [rx EXCEPT ![c].next = @ + 1]
    /\ last_step' = NoStep
    /\ UNCHANGED <<stream_log, orderbooks, orderbook_streams, store_lock, wsvars, callvars,
                   exchange_id, published, accepted, installed, attach,
                   my_event, subscribes, fnvars>>

\* Receiver::recv returns Lagged: the events this receiver had not read were
\* evicted, and it continues from the oldest one still stored.
RecvLagged(c) ==
    /\ rx[c] # NoRx
    /\ LET ch == orderbook_streams[rx[c].key]
       IN  /\ rx[c].next < Oldest(ch)
           /\ received' = [received EXCEPT ![c] =
                 [pos |-> rx[c].next, lagged |-> Oldest(ch) - rx[c].next]]
           /\ rx' = [rx EXCEPT ![c].next = Oldest(ch)]
    /\ last_step' = NoStep
    /\ UNCHANGED <<stream_log, orderbooks, orderbook_streams, store_lock, wsvars, callvars,
                   exchange_id, published, accepted, installed, attach,
                   my_event, subscribes, fnvars>>

\* -------------------------------------------------- the connection task
\* A mutant of WsConnect: a connection that has ended is opened again.
WsConnectAgain ==
    /\ ws_state \in {"connecting", "closed"}
    /\ ws_state' = "open"
    /\ last_step' = NoStep
    /\ UNCHANGED <<orderbooks, orderbook_streams, store_lock, ws_queue,
                   active_subscriptions, ws_pc, orderbook_clone, sent_frames,
                   callvars, rx, exchange_id, histvars, subscribes, fnvars>>

\* connect_async succeeds: the loop starts.
WsConnect ==
    /\ ws_state = "connecting"
    /\ ws_state' = "open"
    /\ last_step' = NoStep
    /\ UNCHANGED <<orderbooks, orderbook_streams, store_lock, ws_queue,
                   active_subscriptions, ws_pc, orderbook_clone, sent_frames,
                   callvars, rx, exchange_id, histvars, subscribes, fnvars>>

\* connect_async fails: run_websocket returns and the receiving end of the
\* queue is dropped with whatever it holds.
WsConnectErr ==
    /\ ws_state = "connecting"
    /\ ws_state' = "closed"
    /\ ws_queue' = <<>>
    /\ last_step' = NoStep
    /\ UNCHANGED <<orderbooks, orderbook_streams, store_lock,
                   active_subscriptions, ws_pc, orderbook_clone, sent_frames,
                   callvars, rx, exchange_id, histvars, subscribes, fnvars>>

\* A mutant of contains: no symbol is ever found active.
contains_never(subscriptions, symbol) == FALSE

\* active_subscriptions.contains(&symbol)
contains(subscriptions, symbol) ==
    \E i \in 1..Len(subscriptions) : subscriptions[i] = symbol

\* select! takes a symbol from the queue that is already subscribed: skip.
WsSkipActive ==
    /\ ws_state = "open" /\ ws_pc = "select"
    /\ ws_queue # <<>>
    /\ contains(active_subscriptions, Head(ws_queue))
    /\ ws_queue' = Tail(ws_queue)
    /\ last_step' = [op |-> "skip"]
    /\ UNCHANGED <<orderbooks, orderbook_streams, store_lock, ws_state,
                   active_subscriptions, ws_pc, orderbook_clone, sent_frames,
                   callvars, rx, exchange_id, histvars, subscribes, fnvars>>

\* A mutant of WsSendSubscribe: the select is biased, a request is taken
\* only when no frame is waiting.
WsSendSubscribeBiased ==
    /\ ws_state = "open" /\ ws_pc = "select"
    /\ inbox = <<>>
    /\ ws_queue # <<>>
    /\ ~contains(active_subscriptions, Head(ws_queue))
    /\ ws_queue' = Tail(ws_queue)
    /\ sent_frames' = Append(sent_frames, ToLower(Head(ws_queue)))
    /\ active_subscriptions' = Append(active_subscriptions, Head(ws_queue))
    /\ last_step' = NoStep
    /\ UNCHANGED <<orderbooks, orderbook_streams, store_lock, ws_state, ws_pc,
                   orderbook_clone, callvars, rx, exchange_id, histvars,
                   subscribes, fnvars>>

\* select! takes a new symbol and the SUBSCRIBE frame is sent: the symbol
\* becomes active.
WsSendSubscribe ==
    /\ ws_state = "open" /\ ws_pc = "select"
    /\ ws_queue # <<>>
    /\ ~contains(active_subscriptions, Head(ws_queue))
    /\ ws_queue' = Tail(ws_queue)
    /\ sent_frames' = Append(sent_frames, ToLower(Head(ws_queue)))
    /\ active_subscriptions' = Append(active_subscriptions, Head(ws_queue))
    /\ last_step' = NoStep
    /\ UNCHANGED <<orderbooks, orderbook_streams, store_lock, ws_state, ws_pc,
                   orderbook_clone, callvars, rx, exchange_id, histvars,
                   subscribes, fnvars>>

\* select! takes a new symbol and sending the frame fails: logged only, the
\* symbol does not become active.
WsSendSubscribeErr ==
    /\ ws_state = "open" /\ ws_pc = "select"
    /\ ws_queue # <<>>
    /\ ~contains(active_subscriptions, Head(ws_queue))
    /\ ws_queue' = Tail(ws_queue)
    /\ last_step' = NoStep
    /\ UNCHANGED <<orderbooks, orderbook_streams, store_lock, ws_state,
                   active_subscriptions, ws_pc, orderbook_clone, sent_frames,
                   callvars, rx, exchange_id, histvars, subscribes, fnvars>>

\* A mutant of WsOtherFrame: a frame that is not handled ends the loop.
WsOtherFrameBreaks(kind) ==
    /\ ws_state = "open" /\ ws_pc = "select"
    /\ ws_state' = "closed"
    /\ ws_queue' = <<>>
    /\ last_step' = [op |-> kind]
    /\ UNCHANGED <<orderbooks, orderbook_streams, store_lock,
                   active_subscriptions, ws_pc, orderbook_clone, sent_frames,
                   callvars, rx, exchange_id, histvars, subscribes, fnvars>>

\* A text frame that is no depth update ("no_marker"), one that carries the
\* marker and does not deserialize ("parse_error"), a ping (answered with a
\* pong) or another frame kind: nothing of the client's state changes.
WsOtherFrame(kind) ==
    /\ ws_state = "open" /\ ws_pc = "select"
    /\ last_step' = [op |-> kind]
    /\ UNCHANGED <<orderbooks, orderbook_streams, store_lock, wsvars, callvars,
                   rx, exchange_id, histvars, subscribes, fnvars>>

\* handle_ws_message on a depth update, up to the release of the store lock.
\* No book for the symbol: a warning.  A stale id: return.  Otherwise the
\* book is changed in place and cloned for the event.
HandleDepthUpdate(update) ==
    /\ ws_state = "open" /\ ws_pc = "select"
    /\ store_lock = "free"
    /\ LET k == ToLower(update.symbol)
           orderbook == orderbooks[k]
       IN  IF orderbook = NoBook
           THEN /\ last_step' = [op |-> "no_book"]
                /\ UNCHANGED <<orderbooks, ws_pc, orderbook_clone, accepted>>
           ELSE IF ~Accepts(orderbook, update)
           THEN /\ last_step' = [op |-> "reject"]
                /\ UNCHANGED <<orderbooks, ws_pc, orderbook_clone, accepted>>
           ELSE /\ orderbooks' =
                     [orderbooks EXCEPT ![k] = ApplyDepthUpdate(orderbook, update)]
                /\ orderbook_clone' = ApplyDepthUpdate(orderbook, update)
                /\ accepted' = [accepted EXCEPT ![k] = Append(@, update.final_update_id)]
                /\ ws_pc' = "publish"
                /\ last_step' = [op |-> "apply",
                                 first_update_id |-> update.first_update_id]
    /\ UNCHANGED <<stream_log, orderbook_streams, store_lock, ws_queue, ws_state,
                   active_subscriptions, sent_frames, callvars, rx, exchange_id,
                   published, installed, received, attach, my_event,
                   subscribes>>

\* The socket yields a depth update.
WsDepthUpdate(update) ==
    /\ HandleDepthUpdate(update)
    /\ UNCHANGED fnvars

\* A mutant of WsPublish: the send waits until every receiver of the channel
\* has read all but the newest stored event.
WsPublishWaits ==
    /\ ws_state = "open" /\ ws_pc = "publish"
    /\ LET k == orderbook_clone.symbol
           event == OrderBookEvent(orderbook_clone, "Delta")
           n == ReceiverCount(k)
       IN  /\ \A c \in Clients :
                 (rx[c] # NoRx /\ rx[c].key = k) =>
                     orderbook_streams[k].tail - rx[c].next < ChannelCapacity
           /\ orderbook_streams' =
                 [orderbook_streams EXCEPT ![k] = Send(@, event, n)]
           /\ published' =
                 [published EXCEPT ![k] =
                     Append(@, Published(event, IF n = 0 THEN -1
                                                ELSE orderbook_streams[k].tail))]
    /\ ws_pc' = "select"
    /\ orderbook_clone' = NoBook
    /\ last_step' = NoStep
    /\ UNCHANGED <<stream_log, orderbooks, store_lock, ws_queue, ws_state,
                   active_subscriptions, sent_frames, callvars, rx, exchange_id,
                   accepted, installed, received, attach, my_event, subscribes,
                   fnvars>>

\* handle_ws_message after the store lock was dropped: the streams lock is
\* taken and the Delta event sent (the result of send is only logged).
WsPublish ==
    /\ ws_state = "open" /\ ws_pc = "publish"
    /\ LET k == orderbook_clone.symbol
           event == OrderBookEvent(orderbook_clone, "Delta")
           n == ReceiverCount(k)
       IN  IF orderbook_streams[k] # NoStream
           THEN /\ orderbook_streams' =
                      [orderbook_streams EXCEPT ![k] = Send(@, event, n)]
                /\ published' =
                      [published EXCEPT ![k] =
                          Append(@, Published(event, IF n = 0 THEN -1
                                                     ELSE orderbook_streams[k].tail))]
           ELSE UNCHANGED <<orderbook_streams, published>>
    /\ ws_pc' = "select"
    /\ orderbook_clone' = NoBook
    /\ last_step' = NoStep
    /\ UNCHANGED <<stream_log, orderbooks, store_lock, ws_queue, ws_state,
                   active_subscriptions, sent_frames, callvars, rx, exchange_id,
                   accepted, installed, received, attach, my_event, subscribes,
                   fnvars>>

\* ws_reader.next() gives an error or the end of the stream: the loop breaks,
\* run_websocket returns and the receiving end of the queue is dropped.
WsClose ==
    /\ ws_state = "open" /\ ws_pc = "select"
    /\ ws_state' = "closed"
    /\ ws_queue' = <<>>
    /\ last_step' = NoStep
    /\ UNCHANGED <<orderbooks, orderbook_streams, store_lock,
                   active_subscriptions, ws_pc, orderbook_clone, sent_frames,
                   callvars, rx, exchange_id, histvars, subscribes, fnvars>>

\* ----------------------------------------------------------- the exchange
\* The exchange's book changes: its update id grows.
ExchangeAdvance ==
    /\ exchange_id < MaxUpdateId
    /\ exchange_id' = exchange_id + 1
    /\ last_step' = NoStep
    /\ UNCHANGED <<orderbooks, orderbook_streams, store_lock, wsvars, callvars,
                   rx, histvars, subscribes, fnvars>>

\* The store and the connection: one caller subscribing (again and again),
\* every kind of frame, every failure.
Next ==
    \/ \E c \in Subscribers, symbol \in SymbolArgs : SubscribeInvalid(c, symbol)
    \/ \E c \in Subscribers, symbol \in SymbolArgs : SubscribeBegin(c, symbol)
    \/ \E c \in Subscribers, body \in SnapshotBodies : SubscribeFetchOk(c, body)
    \/ \E c \in Subscribers : SubscribeFetchErr(c)
    \/ \E c \in Subscribers : SubscribeInstall(c)
    \/ \E c \in Subscribers : SubscribePublish(c)
    \/ \E c \in Subscribers : SubscribeHandoff(c)
    \/ \E c \in Subscribers : SubscribeHandoffErr(c)
    \/ WsConnect
    \/ WsConnectErr
    \/ WsSkipActive
    \/ WsSendSubscribe
    \/ WsSendSubscribeErr
    \/ \E kind \in FrameKinds : WsOtherFrame(kind)
    \/ \E update \in DepthUpdates : WsDepthUpdate(update)
    \/ WsPublish
    \/ WsClose
    \/ ExchangeAdvance

Spec == Init /\ [][Next]_vars

\* The channels and their receivers: one caller subscribing, two callers
\* reading, depth updates for the subscribed symbol.
FanoutSnapshotBodies ==
    { [bids |-> << <<"1", "1">>, <<"2", "2">> >>, asks |-> << <<"2", "1">> >>] }

FanoutUpdateBodies ==
    { [bids |-> << <<"1", "0">> >>, asks |-> << <<"2", "x">>, <<"1", "2">> >>] }

\* Concurrent callers: every client calls subscribe, orderbook_stream and
\* get_orderbook with any argument, while the connection task serves the
\* queue; the exchange stays silent.
NextCalls ==
    \/ \E c \in Clients, symbol \in SymbolArgs : SubscribeInvalid(c, symbol)
    \/ \E c \in Clients, symbol \in SymbolArgs : SubscribeBegin(c, symbol)
    \/ \E c \in Clients, body \in FanoutSnapshotBodies : SubscribeFetchOk(c, body)
    \/ \E c \in Clients : SubscribeFetchErr(c)
    \/ \E c \in Clients : SubscribeInstall(c)
    \/ \E c \in Clients : SubscribePublish(c)
    \/ \E c \in Clients : SubscribeHandoff(c)
    \/ \E c \in Clients : SubscribeHandoffErr(c)
    \/ \E c \in Clients, symbol \in SymbolArgs : OrderbookStream(c, symbol)
    \/ \E c \in Clients, symbol \in SymbolArgs : OrderbookStreamErr(c, symbol)
    \/ \E c \in Clients, symbol \in SymbolArgs : GetOrderbook(c, symbol)
    \/ WsConnect
    \/ WsConnectErr
    \/ WsSkipActive
    \/ WsSendSubscribe
    \/ WsSendSubscribeErr
    \/ WsClose

SpecCalls == Init /\ [][NextCalls]_vars

\* The frames of the fan-out scenario: the exchange sends its newest update,
\* possibly more than once.
FanoutDepthUpdates ==
    { update \in DepthUpdatesOf({"BTC"}, FanoutUpdateBodies) :
        update.first_update_id = exchange_id }

NextFanout ==
    \/ \E c \in Subscribers : SubscribeBegin(c, "btc")
    \/ \E c \in Subscribers, body \in FanoutSnapshotBodies : SubscribeFetchOk(c, body)
    \/ \E c \in Subscribers : SubscribeInstall(c)
    \/ \E c \in Subscribers : SubscribePublish(c)
    \/ \E c \in Subscribers : SubscribeHandoff(c)
    \/ \E c \in Consumers : OrderbookStream(c, "btc")
    \/ \E c \in Consumers : Recv(c)
    \/ \E c \in Consumers : RecvLagged(c)
    \/ WsConnect
    \/ WsSkipActive
    \/ WsSendSubscribe
    \/ \E update \in FanoutDepthUpdates : WsDepthUpdate(update)
    \/ WsPublish
    \/ ExchangeAdvance

SpecFanout == Init /\ [][NextFanout]_vars

\* ------------------------------------------------------------- helpers
Range(seq) == { seq[i] : i \in 1..Len(seq) }

Max(S) == CHOOSE x \in S : \A y \in S : y <= x

StrictlySorted(side, bid) ==
    \A i \in 1..(Len(side) - 1) : Before(side[i], side[i + 1], bid)

Sorted(side, bid) ==
    \A i \in 1..(Len(side) - 1) : ~Before(side[i + 1], side[i], bid)

HasBook(k) == orderbooks[k] # NoBook

\* The final ids accepted for k since its stored book was installed.
AcceptedSince(k) ==
    SubSeq(accepted[k], installed[k].accepted_before + 1, Len(accepted[k]))

\* ------------------------------------------------------------------ C1
\* C1: a depth update whose final_update_id is at most the stored book's
\* last_update_id is rejected: the step leaves the store, every channel and
\* the record of published events as they were, and handle_ws_message does
\* not go on to publish.
\* (Written as "nothing changed, or the step is not the handling of a
\* stale update".)
C1_StaleUpdateRejected ==
    [][\/ /\ orderbooks' = orderbooks
          /\ orderbook_streams' = orderbook_streams
          /\ published' = published
          /\ ws_pc' = "select"
       \/ ~ \E update \in DepthUpdates :
              /\ HasBook(ToLower(update.symbol))
              /\ update.final_update_id
                    <= orderbooks[ToLower(update.symbol)].last_update_id
              /\ WsDepthUpdate(update)]_vars

\* A stale update has just been rejected on a book that deltas had changed.
C1_Witness ==
    /\ last_step = [op |-> "reject"]
    /\ HasBook("btc")
    /\ orderbooks["btc"].update_type = "Delta"

\* ------------------------------------------------------------------ C2
\* C2: while depth updates are delivered for a book (any order, duplicates,
\* replays) its last_update_id never decreases, it always equals the maximum
\* of the installed snapshot's lastUpdateId and the accepted final ids, and
\* an update whose id was already accepted changes nothing.
C2_LastIdIsMax ==
    \A k \in Keys :
        HasBook(k) =>
            orderbooks[k].last_update_id =
                Max({installed[k].last_update_id} \cup Range(AcceptedSince(k)))

\* A step that accepts an update for k raises the id of k's book to the
\* update's id; a step that handles an update whose id was accepted since
\* the book was installed changes nothing.  (Any other update that is not
\* accepted is rejected and leaves the store as it is: C1.)
C2_UpdateStep ==
    \A k \in Keys :
        /\ accepted'[k] # accepted[k] =>
              /\ HasBook(k)
              /\ orderbooks'[k].last_update_id > orderbooks[k].last_update_id
              /\ orderbooks'[k].last_update_id = accepted'[k][Len(accepted'[k])]
        /\ \/ /\ orderbooks' = orderbooks
              /\ published' = published
              /\ accepted' = accepted
           \/ ~ \E update \in DepthUpdates :
                  /\ ToLower(update.symbol) = k
                  /\ HasBook(k)
                  /\ update.final_update_id \in Range(AcceptedSince(k))
                  /\ WsDepthUpdate(update)

C2_MonotoneMaxIdempotent == [](C2_LastIdIsMax) /\ [][C2_UpdateStep]_vars

\* An update was accepted and a later delivery (a replay or an older id) was
\* rejected.
C2_Witness ==
    /\ HasBook("btc")
    /\ AcceptedSince("btc") # <<>>
    /\ last_step = [op |-> "reject"]
    /\ orderbooks["btc"].last_update_id > installed["btc"].last_update_id

\* ------------------------------------------------------------------ C3
\* C3 (as claimed): for each symbol the last_update_id of the stored book
\* never decreases, whatever subscribe calls and depth updates interleave.
C3_StoreIdNeverDecreases ==
    [][\A k \in Keys :
          (HasBook(k) /\ orderbooks'[k] # NoBook) =>
              orderbooks'[k].last_update_id >= orderbooks[k].last_update_id]_vars

\* ------------------------------------------------------------------ C4
\* C4: every stored book that started from a snapshot with distinct prices
\* on each side has strictly descending bids and strictly ascending asks,
\* right after the install and after every applied depth update.
C4_StrictlySortedBooks ==
    \A k \in Keys :
        (HasBook(k) /\ installed[k].distinct) =>
            /\ StrictlySorted(orderbooks[k].bids, TRUE)
            /\ StrictlySorted(orderbooks[k].asks, FALSE)

\* A book from a distinct-price snapshot that a depth update has grown to
\* three bid levels.
C4_Witness ==
    /\ HasBook("btc")
    /\ installed["btc"].distinct
    /\ orderbooks["btc"].update_type = "Delta"
    /\ Len(orderbooks["btc"].bids) >= 3

\* ------------------------------------------------------------------ C5
\* The prices an update list names, how often it names one, and the quantity
\* it gives for a price it names once.
ListedPrices(u) == { ParseF64(u[i][1]) : i \in 1..Len(u) }

ListedOnce(u, p) == Cardinality({ i \in 1..Len(u) : ParseF64(u[i][1]) = p }) = 1

ListedQuantity(u, p) ==
    ParseF64(u[CHOOSE i \in 1..Len(u) : ParseF64(u[i][1]) = p][2])

\* The levels of a side at price p, in order.
LevelsAt(side, p) == SelectSeq(side, LAMBDA l : l.price = p)

PricesOf(side) == { side[i].price : i \in 1..Len(side) }

\* What C5 says of a price p listed once, given that `sole` holds.
C5_Listed(p, sole) ==
    LET q == ListedQuantity(updates, p)
    IN  IF q = 0
        THEN /\ LevelsAt(levels, p) = <<>>
             /\ (Len(updates) = 1 /\ LevelsAt(levels_before, p) = <<>>)
                    => levels = levels_before
        ELSE sole => LevelsAt(levels, p) = <<OrderBookLevel(p, q)>>

\* What C5 says of the side as a whole: it is in sorted order, and the
\* levels at prices the update does not list are as they were.
C5_Rest ==
    /\ Sorted(levels, is_bid)
    /\ \A r \in (PricesOf(levels_before) \cup PricesOf(levels)) \ ListedPrices(updates) :
          LevelsAt(levels, r) = LevelsAt(levels_before, r)

\* C5 (as claimed): after update_levels, a price listed once with quantity 0
\* has no level, a price listed once with another quantity has exactly one
\* level carrying it, the side is sorted, unlisted prices are untouched.
C5_AsClaimed ==
    called =>
        /\ \A p \in ListedPrices(updates) :
              ListedOnce(updates, p) => C5_Listed(p, TRUE)
        /\ C5_Rest

\* C5 (amended): the same, where "exactly one level carrying the listed
\* quantity" is said only of a price at which the side held at most one
\* level before the update.
C5_MergePerPrice ==
    called =>
        /\ \A p \in ListedPrices(updates) :
              ListedOnce(updates, p) =>
                  C5_Listed(p, Len(LevelsAt(levels_before, p)) <= 1)
        /\ C5_Rest

\* A bid side of two levels into which one update inserted a new level
\* between them (Scenario C's shape).
C5_Witness ==
    /\ called /\ is_bid
    /\ Len(updates) = 1
    /\ Len(levels_before) = 2 /\ Len(levels) = 3
    /\ levels[1] = levels_before[1] /\ levels[3] = levels_before[2]
    /\ levels[2].price = ParseF64(updates[1][1])

\* ------------------------------------------------------------------ C6
\* C6 (as claimed): a consumer that attached its receiver right after its
\* subscribe call returned Ok gets that call's Snapshot event, that is, the
\* event was stored in the channel at or after the position the receiver
\* starts reading from.
C6_SnapshotReachesConsumer ==
    \A c \in Consumers :
        attach[c].how = "after_subscribe" =>
            published[rx[c].key][my_event[c]].pos >= attach[c].pos

\* ------------------------------------------------------------------ C7
\* C7: the first event sent on a symbol's channel is a Snapshot; and a symbol
\* is handed to the connection task (is about to be queued, is queued, is
\* active or had its SUBSCRIBE frame sent) only when its book is in the store
\* and a Snapshot of the handing call has been sent.
C7_SnapshotFirst ==
    /\ \A k \in Keys :
          published[k] # <<>> => published[k][1].event_type = "Snapshot"
    /\ \A k \in Range(ws_queue) \cup Range(active_subscriptions) \cup Range(sent_frames) :
          /\ HasBook(k)
          /\ \E i \in 1..Len(published[k]) : published[k][i].event_type = "Snapshot"
    /\ \A c \in Subscribers :
          pc[c] = "handoff" =>
              /\ HasBook(symbol_lower[c])
              /\ my_event[c] \in 1..Len(published[symbol_lower[c]])
              /\ published[symbol_lower[c]][my_event[c]].event_type = "Snapshot"
              /\ published[symbol_lower[c]][my_event[c]].last_update_id
                    = snapshot[c].last_update_id

\* The SUBSCRIBE frame went out and a Delta has been sent after the Snapshot.
C7_Witness ==
    /\ sent_frames = <<"btc">>
    /\ Len(published["btc"]) >= 2
    /\ published["btc"][2].event_type = "Delta"

\* ------------------------------------------------------------------ C8
\* The update ids of the Delta events sent for k, in order.
DeltaIds(k) ==
    LET deltas == SelectSeq(published[k], LAMBDA e : e.event_type = "Delta")
    IN  [i \in 1..Len(deltas) |-> deltas[i].last_update_id]

\* The accepted updates of k whose Delta event has been sent.
AcceptedAndSent(k) ==
    IF ws_pc = "publish" /\ orderbook_clone.symbol = k
    THEN SubSeq(accepted[k], 1, Len(accepted[k]) - 1)
    ELSE accepted[k]

\* C8 (as claimed): the Delta events of a symbol are sent in the order their
\* updates were accepted, and two Delta events with no Snapshot between them
\* carry strictly increasing last_update_id.
C8_DeltasInOrderIncreasing ==
    \A k \in Keys :
        /\ DeltaIds(k) = AcceptedAndSent(k)
        /\ \A i \in 1..(Len(published[k]) - 1) :
              ( /\ published[k][i].event_type = "Delta"
                /\ published[k][i + 1].event_type = "Delta" )
              => published[k][i + 1].last_update_id > published[k][i].last_update_id

\* ------------------------------------------------------------------ C9
\* The sends for k that the channel stored, in the order they were made.
StoredEntries(k) == SelectSeq(published[k], LAMBDA e : e.pos # -1)

\* The channel of k numbers the stored events 0, 1, 2, ... in the order they
\* were sent, and what it holds at a position is the event sent there.
ChannelMatchesLog(k) ==
    LET ch == orderbook_streams[k]
        st == StoredEntries(k)
    IN  ch # NoStream =>
            /\ Len(st) = ch.tail
            /\ \A i \in 1..Len(st) :
                  /\ st[i].pos = i - 1
                  /\ i - 1 >= Oldest(ch) =>
                        Published(EventAt(ch, i - 1), i - 1) = st[i]

\* A receiver reads from its attach position on, and one that is behind by
\* no more than the capacity has lost nothing.
ReceiverInRange(c) ==
    rx[c] # NoRx =>
        LET ch == orderbook_streams[rx[c].key]
        IN  /\ attach[c].pos <= rx[c].next
            /\ rx[c].next <= ch.tail
            /\ ch.tail - rx[c].next <= ChannelCapacity => rx[c].next >= Oldest(ch)

\* A step of a receiver: it either returns the event at its position and
\* moves one position on, or it reports a lag and moves forward.
ReceiverStep(c) ==
    (rx[c] # NoRx /\ rx'[c] # rx[c]) =>
        LET ch == orderbook_streams[rx[c].key]
        IN  \/ /\ rx[c].next >= Oldest(ch)
               /\ received'[c] = [pos |-> rx[c].next,
                                  event |-> EventAt(ch, rx[c].next)]
               /\ rx'[c] = [rx[c] EXCEPT !.next = @ + 1]
            \/ /\ rx[c].next < Oldest(ch)
               /\ "lagged" \in DOMAIN received'[c]
               /\ rx'[c].key = rx[c].key
               /\ rx'[c].next > rx[c].next

\* C9: every receiver of a channel gets the events in the order they were
\* sent (positions are handed out in sending order and each receiver reads
\* them in increasing order, so no two receivers see two events in opposite
\* orders), and a receiver that is never behind by more than the capacity
\* reads every position from the one it attached at, without a gap.
C9_FanoutInOrder ==
    /\ [](\A k \in Keys : ChannelMatchesLog(k))
    /\ [](\A c \in Consumers : ReceiverInRange(c))
    /\ [][\A c \in Consumers : ReceiverStep(c)]_vars

\* Two receivers that attached at different positions have both just read
\* the same Delta event.
C9_Witness ==
    /\ attach["c1"].how # "none" /\ attach["c2"].how # "none"
    /\ attach["c1"].pos # attach["c2"].pos
    /\ "event" \in DOMAIN received["c1"]
    /\ received["c1"] = received["c2"]
    /\ received["c1"].event.event_type = "Delta"

\* ----------------------------------------------------------------- C10
Min(a, b) == IF a <= b THEN a ELSE b

\* The channel of k holds the newest stored events, as many as fit, oldest
\* first.
RetainsNewest(k) ==
    LET ch == orderbook_streams[k]
        st == StoredEntries(k)
        n == Len(ch.buf)
    IN  ch # NoStream =>
            /\ n = Min(Len(st), ChannelCapacity)
            /\ \A j \in 1..n :
                  Published(ch.buf[j], ch.tail - n + j - 1) = st[Len(st) - n + j]

\* A publish step is never held back by the receivers.
PublishNeverWaits ==
    /\ \A c \in Subscribers : pc[c] = "publish" => ENABLED SubscribePublish(c)
    /\ (ws_state = "open" /\ ws_pc = "publish") => ENABLED WsPublish

\* A publish step stores the new event as the newest one when there is a
\* receiver, and leaves the store as it is.
PublishStep ==
    \A k \in Keys :
        published'[k] # published[k] =>
            /\ orderbooks' = orderbooks
            /\ Len(published'[k]) = Len(published[k]) + 1
            /\ LET e == published'[k][Len(published'[k])]
                   ch == orderbook_streams'[k]
               IN  IF ReceiverCount(k) = 0
                   THEN e.pos = -1 /\ ch = orderbook_streams[k]
                   ELSE /\ e.pos = ch.tail - 1
                        /\ Published(EventAt(ch, e.pos), e.pos) = e

\* A receiver that reports a lag continues at the oldest event still held.
LagStep(c) ==
    (rx[c] # NoRx /\ rx'[c] # rx[c] /\ "lagged" \in DOMAIN received'[c]) =>
        /\ orderbook_streams' = orderbook_streams
        /\ rx'[c].next = Oldest(orderbook_streams[rx[c].key])
        /\ received'[c].lagged = rx'[c].next - rx[c].next

\* C10: a publish step can always be taken, with no receiver and with
\* receivers that are a whole buffer behind; the channel keeps the newest
\* events and evicts the oldest, so a receiver that lagged loses only the
\* oldest unread events; publishing leaves the store unchanged.
C10_PublishNeverBlocks ==
    /\ [](PublishNeverWaits)
    /\ [](\A k \in Keys : RetainsNewest(k))
    /\ [][PublishStep]_vars
    /\ [][\A c \in Consumers : LagStep(c)]_vars

\* An event was sent with no receiver attached, and a receiver that was a
\* whole buffer behind when a further event was stored has reported its lag.
C10_Witness ==
    /\ \E i \in 1..Len(published["btc"]) : published["btc"][i].pos = -1
    /\ \E c \in Consumers :
          /\ "lagged" \in DOMAIN received[c]
          /\ received[c].lagged >= 1
          /\ orderbook_streams["btc"].tail > ChannelCapacity

\* ----------------------------------------------------------------- C11
\* The channel of k, once there, stays, and changes only by storing events.
ChannelKept(k) ==
    orderbook_streams[k] # NoStream =>
        /\ orderbook_streams'[k] # NoStream
        /\ \/ orderbook_streams'[k] = orderbook_streams[k]
           \/ /\ orderbook_streams'[k].tail = orderbook_streams[k].tail + 1
              /\ published'[k] # published[k]

\* C11: at most one channel is ever created for a symbol, also when several
\* subscribe calls for a new symbol run at once; a channel is never removed
\* or replaced, and every call in progress and every receiver refers to a
\* symbol whose channel is there.
C11_OneChannelPerSymbol ==
    /\ [](\A k \in Keys :
            /\ stream_log[k].created <= 1
            /\ (orderbook_streams[k] # NoStream) <=> (stream_log[k].created = 1))
    /\ [](\A c \in Clients :
            /\ pc[c] # "idle" => orderbook_streams[symbol_lower[c]] # NoStream
            /\ rx[c] # NoRx => orderbook_streams[rx[c].key] # NoStream)
    /\ [][\A k \in Keys : ChannelKept(k)]_vars

\* Two subscribe calls for the same new symbol are in progress at once.
C11_Witness ==
    /\ pc["c1"] = "fetch" /\ pc["c2"] = "fetch"
    /\ symbol_lower["c1"] = "btc" /\ symbol_lower["c2"] = "btc"
    /\ stream_log["btc"].created = 1
    /\ orderbooks["btc"] = NoBook

\* ----------------------------------------------------------------- C12
NoDuplicates(seq) ==
    \A i, j \in 1..Len(seq) : seq[i] = seq[j] => i = j

\* A step of the connection task that takes a symbol from the queue: if the
\* symbol is active nothing is sent; else at most its frame is sent, and it
\* becomes active exactly when the frame was sent.
QueueStep ==
    (ws_queue # <<>> /\ ws_queue' = Tail(ws_queue) /\ ws_state' = "open") =>
        IF Head(ws_queue) \in Range(active_subscriptions)
        THEN sent_frames' = sent_frames /\ active_subscriptions' = active_subscriptions
        ELSE \/ /\ sent_frames' = Append(sent_frames, Head(ws_queue))
                /\ active_subscriptions' = Append(active_subscriptions, Head(ws_queue))
             \/ /\ sent_frames' = sent_frames
                /\ active_subscriptions' = active_subscriptions

\* C12: no symbol has its SUBSCRIBE frame sent twice, however often
\* subscribe is called for it; the active symbols are exactly those whose
\* frame was sent; a queued request for an active symbol sends nothing; and
\* frames are only sent when a request is taken from the queue.
C12_OneFramePerSymbol ==
    /\ [](NoDuplicates(sent_frames) /\ active_subscriptions = sent_frames)
    /\ [][QueueStep]_vars
    /\ [][sent_frames' # sent_frames => ws_queue' = Tail(ws_queue)]_vars

\* Two subscribe calls for one symbol (written "btc" and "BTC") returned Ok,
\* one frame went out and the repeated request has just been skipped.
C12_Witness ==
    /\ last_step = [op |-> "skip"]
    /\ sent_frames = <<"btc">>
    /\ result["c1"] = "Ok" /\ result["c2"] = "Ok"
    /\ ws_queue = <<>>

\* ----------------------------------------------------------------- C13
\* The steps of one subscribe call c after its fetch succeeded: the install
\* step puts the fetched snapshot, whole, in the place of the stored book;
\* the publish step sends one Snapshot event carrying it; no other step of
\* the call changes the store or sends an event.
SubscribeCallStep(c) ==
    LET k == symbol_lower[c]
    IN  /\ (pc[c] = "fetch" /\ pc'[c] = "install") =>
              /\ snapshot'[c].symbol = k
              /\ snapshot'[c].update_type = "Snapshot"
              /\ orderbooks' = orderbooks /\ published' = published
        /\ pc[c] = "install" =>
              /\ pc'[c] \in {"install", "publish"}
              /\ pc'[c] = "publish" =>
                    /\ orderbooks' = [orderbooks EXCEPT ![k] = snapshot[c]]
                    /\ published' = published
        /\ pc[c] = "publish" =>
              /\ pc'[c] \in {"publish", "handoff"}
              /\ pc'[c] = "handoff" =>
                    /\ orderbooks' = orderbooks
                    /\ orderbooks[k] = snapshot[c]
                    /\ Len(published'[k]) = Len(published[k]) + 1
                    /\ SubSeq(published'[k], 1, Len(published[k])) = published[k]
                    /\ published'[k][Len(published'[k])].event_type = "Snapshot"
                    /\ published'[k][Len(published'[k])].last_update_id
                          = snapshot[c].last_update_id
                    /\ \A j \in Keys \ {k} : published'[j] = published[j]
        /\ pc[c] = "handoff" =>
              /\ pc'[c] \in {"handoff", "idle"}
              /\ pc'[c] = "idle" => orderbooks' = orderbooks /\ published' = published

\* C13: every subscribe call whose fetch succeeded, a repeated one as well,
\* replaces the stored book by the fetched snapshot (kind Snapshot) and sends
\* exactly one Snapshot event on the symbol's channel.
C13_ResubscribeReplaces ==
    /\ [][\A c \in Clients : SubscribeCallStep(c)]_vars
    /\ [](\A c \in Clients : pc[c] = "publish" => ENABLED SubscribePublish(c))

\* A repeated subscribe has replaced a book that deltas had changed and has
\* sent its Snapshot after the first Snapshot and a Delta.
C13_Witness ==
    /\ pc["c1"] = "handoff"
    /\ installed["btc"].accepted_before >= 1
    /\ orderbooks["btc"] = snapshot["c1"]
    /\ Len(published["btc"]) >= 3
    /\ my_event["c1"] = Len(published["btc"])

\* ----------------------------------------------------------------- C14
\* A step in which a subscribe call starts and returns at once changes only
\* that caller's result, to InvalidSymbol.
InvalidSymbolStep ==
    (subscribes' # subscribes /\ pc' = pc) =>
        /\ \E c \in Clients : result' = [result EXCEPT ![c] = "InvalidSymbol"]
        /\ UNCHANGED <<orderbooks, orderbook_streams, store_lock, wsvars,
                       symbol_lower, snapshot, rx, histvars>>

\* C14: subscribe with the empty symbol returns InvalidSymbol in its first
\* step, before the channel lookup and before the fetch, and changes nothing
\* else; no call that goes on, no queued request and no frame is for the
\* empty symbol.
C14_EmptySymbolRejected ==
    /\ [][InvalidSymbolStep]_vars
    /\ [](\A c \in Clients :
            /\ pc[c] # "idle" => symbol_lower[c] # ""
            /\ (pc[c] = "idle" /\ subscribes < MaxSubscribes) =>
                  /\ ENABLED SubscribeInvalid(c, "")
                  /\ ~ ENABLED SubscribeBegin(c, ""))
    /\ [](\A i \in 1..Len(ws_queue) : ws_queue[i] # "")

\* subscribe("") returned InvalidSymbol to c2 while c1's call for "btc" was
\* waiting to be served: channel, book and queue are as c1 left them.
C14_Witness ==
    /\ result["c2"] = "InvalidSymbol"
    /\ result["c1"] = "Ok"
    /\ HasBook("btc")
    /\ ws_queue = <<"btc">>

\* ----------------------------------------------------------------- C15
\* subscribe was never called for the symbol, in any spelling.
NeverSubscribed(symbol) ==
    ToLower(symbol) \in Keys => ~stream_log[ToLower(symbol)].requested

\* For a symbol never subscribed get_orderbook finds no book and
\* orderbook_stream can only fail.
AbsentAnswers ==
    \A symbol \in SymbolArgs :
        NeverSubscribed(symbol) =>
            /\ Get(orderbooks, symbol, NoBook) = NoBook
            /\ Get(orderbook_streams, symbol, NoStream) = NoStream
            /\ \A c \in Clients :
                  /\ ~ ENABLED OrderbookStream(c, symbol)
                  /\ (pc[c] = "idle" /\ rx[c] = NoRx) =>
                        ENABLED OrderbookStreamErr(c, symbol)

\* A step in which orderbook_stream fails or get_orderbook returns leaves
\* the store and the channels as they are, and get_orderbook returns what
\* the store holds under the symbol as given.
ReadStep ==
    /\ (\E c \in Clients : attach'[c] # attach[c]
                           /\ attach'[c].how = "NoOrderBookStream") =>
          UNCHANGED <<orderbooks, orderbook_streams, stream_log, rx, published>>
    /\ last_step'.op = "get_orderbook" =>
          /\ UNCHANGED <<orderbooks, orderbook_streams, stream_log, rx, published>>
          /\ last_step'.book = Get(orderbooks, last_step'.symbol, NoBook)

\* C15: while subscribe has never been called for a symbol, orderbook_stream
\* for it fails with NoOrderBookStream and get_orderbook returns no book;
\* neither call creates a channel or a book, so the answers repeat.
C15_AbsentSymbolReads ==
    /\ [](AbsentAnswers)
    /\ [][ReadStep]_vars

\* With "btc" never subscribed, orderbook_stream failed for c1 and
\* get_orderbook("btc") has just returned no book.
C15_Witness ==
    /\ ~stream_log["btc"].requested
    /\ attach["c1"].how = "NoOrderBookStream"
    /\ last_step = [op |-> "get_orderbook", symbol |-> "btc", book |-> NoBook]

\* ----------------------------------------------------------------- C16
\* The step in which a call leaves its fetch without a snapshot: the call
\* returns the error and nothing but the caller's state changes.
FetchErrStep(c) ==
    (pc[c] = "fetch" /\ pc'[c] = "idle") =>
        /\ result'[c] = "HttpError"
        /\ UNCHANGED <<orderbooks, orderbook_streams, store_lock, wsvars,
                       published, installed, snapshot>>

\* A book appears in the store only in the install step of a call for that
\* symbol, and is the snapshot that call fetched.
BookAppears(k) ==
    (~HasBook(k) /\ orderbooks'[k] # NoBook) =>
        \E c \in Clients :
            /\ pc[c] = "install" /\ pc'[c] = "publish"
            /\ symbol_lower[c] = k
            /\ orderbooks'[k] = snapshot[c]

\* A call is past its fetch only with the snapshot fetched for its symbol.
HoldsSnapshot(c) ==
    pc[c] \in {"install", "publish", "handoff"} =>
        /\ snapshot[c] # NoBook
        /\ snapshot[c].symbol = symbol_lower[c]
        /\ snapshot[c].update_type = "Snapshot"

\* C16: when the fetch fails subscribe returns the error, the store is
\* unchanged, nothing is sent and the symbol is not handed to the connection
\* task; a depth update for a symbol without a book creates none; so a book
\* is in the store only after a fetch for its symbol succeeded.
C16_FetchFailureLeavesNoBook ==
    /\ [][\A c \in Clients : FetchErrStep(c)]_vars
    /\ [][\A k \in Keys : BookAppears(k)]_vars
    /\ [][last_step'.op = "no_book" => UNCHANGED <<orderbooks, published>>]_vars
    /\ [](\A c \in Clients : HoldsSnapshot(c))
    /\ [](\A k \in Keys : HasBook(k) => installed[k] # NoBook)

\* The fetch for "btc" failed; a depth update for it has just found no book
\* and created none, and nothing was queued or sent.
C16_Witness ==
    /\ result["c1"] = "HttpError"
    /\ orderbook_streams["btc"] # NoStream
    /\ ~HasBook("btc")
    /\ last_step = [op |-> "no_book"]
    /\ ws_queue = <<>> /\ sent_frames = <<>> /\ published["btc"] = <<>>

\* ----------------------------------------------------------------- C17
\* C17 (as claimed): every send of an event, of a Snapshot in subscribe and
\* of a Delta in the connection task, is made with the store lock released.
C17_PublishOutsideStoreLock ==
    [][published' # published => store_lock = "free"]_vars

\* ----------------------------------------------------------------- C18
\* The newest event the channel of k holds.
Newest(ch) == ch.buf[Len(ch.buf)]

\* The step that applies an update clones the whole book as the store now
\* holds it; the step that sends a Delta sends that clone; the step that
\* sends a Snapshot sends the snapshot that is in the store at that moment.
EventCarriesBook ==
    /\ (ws_pc = "select" /\ ws_pc' = "publish") =>
          /\ orderbook_clone' = orderbooks'[orderbook_clone'.symbol]
          /\ orderbook_clone'.update_type = "Delta"
    /\ \A k \in Keys :
          (orderbook_streams[k] # NoStream
             /\ orderbook_streams'[k].tail > orderbook_streams[k].tail) =>
              \/ /\ ws_pc = "publish" /\ ws_pc' = "select"
                 /\ orderbook_clone.symbol = k
                 /\ Newest(orderbook_streams'[k])
                       = [orderbook |-> orderbook_clone, event_type |-> "Delta"]
              \/ \E c \in Clients :
                    /\ pc[c] = "publish" /\ pc'[c] = "handoff"
                    /\ symbol_lower[c] = k
                    /\ orderbooks[k] = snapshot[c]
                    /\ Newest(orderbook_streams'[k])
                          = [orderbook |-> snapshot[c], event_type |-> "Snapshot"]

\* Every event a channel holds is of the kind its book records and is a
\* book of the channel's symbol.
EventKindIsBookKind ==
    \A k \in Keys :
        orderbook_streams[k] # NoStream =>
            \A i \in 1..Len(orderbook_streams[k].buf) :
                LET e == orderbook_streams[k].buf[i]
                IN  /\ e.event_type = e.orderbook.update_type
                    /\ e.orderbook.symbol = k

\* C18: every event carries the whole book as it stood in the store when
\* the snapshot was installed or the update applied, and the event's kind is
\* the update kind of the book it carries.
C18_EventCarriesWholeBook ==
    /\ [][EventCarriesBook]_vars
    /\ [](EventKindIsBookKind)

\* A channel holds a Delta event whose book still has the bid at price 2,
\* which the update that caused the event did not list.
C18_Witness ==
    /\ orderbook_streams["btc"] # NoStream
    /\ \E i \in 1..Len(orderbook_streams["btc"].buf) :
          LET e == orderbook_streams["btc"].buf[i]
          IN  /\ e.event_type = "Delta"
              /\ e.orderbook.bids = <<OrderBookLevel(2, 2)>>
              /\ e.orderbook.asks = <<OrderBookLevel(1, 2)>>

\* ----------------------------------------------------------------- C19
\* What a step taken after the connection task has ended leaves alone: the
\* connection stays closed, no frame is written, no update is accepted, the
\* store changes only by a snapshot being installed, and every send is the
\* send of a Snapshot.
TerminalStep ==
    /\ ws_state' = "closed"
    /\ sent_frames' = sent_frames
    /\ active_subscriptions' = active_subscriptions
    /\ ws_queue' = <<>>
    /\ accepted' = accepted
    /\ \A k \in Keys :
          /\ orderbooks'[k] # orderbooks[k] => orderbooks'[k].update_type = "Snapshot"
          /\ published'[k] # published[k] =>
                /\ Len(published'[k]) = Len(published[k]) + 1
                /\ published'[k][Len(published'[k])].event_type = "Snapshot"

\* C19: once the connection task has ended, by a failed connect, a transport
\* error or a close by the peer, it never runs again: no frame is sent, no
\* depth update is applied, no Delta event is sent and the connection is not
\* opened again.
C19_ClosedIsTerminal ==
    [][ws_state = "closed" => TerminalStep]_vars

\* The connection was open, sent a frame and applied an update, then ended;
\* a subscribe call made its hand-off after that and got ChannelError.
C19_Witness ==
    /\ ws_state = "closed"
    /\ sent_frames # <<>>
    /\ accepted["btc"] # <<>>
    /\ result["c1"] = "ChannelError"

\* ----------------------------------------------------------------- C20
\* The text frames handle_ws_message drops before it touches anything.
DroppedKinds == {"no_marker", "parse_error"}

\* The step that drops a frame changes neither the store nor a channel nor
\* the send history, and leaves the connection task open, at its select,
\* with its queue and its subscriptions as they were.
DroppedFrameStep ==
    last_step'.op \in DroppedKinds =>
        /\ UNCHANGED <<orderbooks, orderbook_streams, published, accepted>>
        /\ UNCHANGED <<ws_queue, active_subscriptions, sent_frames, orderbook_clone>>
        /\ ws_state' = "open"
        /\ ws_pc' = "select"

\* Right after a dropped frame the loop takes the next frame or request as
\* it would have without it: a depth update whenever the store lock is free,
\* a queued symbol, a close.
LoopStillRuns ==
    last_step.op \in DroppedKinds =>
        /\ ws_state = "open" /\ ws_pc = "select"
        /\ ENABLED WsClose
        /\ store_lock = "free" => ENABLED (\E update \in DepthUpdates : WsDepthUpdate(update))
        /\ ws_queue # <<>> => ENABLED (WsSkipActive \/ WsSendSubscribe)

\* C20: a text frame without the depth-update marker, or with the marker and
\* a body that does not deserialize, is dropped: store, channels and send
\* history are unchanged and the connection loop goes on with the next frame.
C20_BadFrameDropped ==
    /\ [][DroppedFrameStep]_vars
    /\ [](LoopStillRuns)

\* A frame that does not deserialize has just been dropped by a connection
\* that holds a book it has already updated, with a request waiting in the
\* queue.
C20_Witness ==
    /\ last_step.op = "parse_error"
    /\ accepted["btc"] # <<>>
    /\ orderbooks["btc"] # NoBook
    /\ ws_queue # <<>>

\* ----------------------------------------------------------------- C21
\* The exchange's update id runs ahead of what the client has seen.
ExchangeRunsAhead ==
    /\ exchange_id < MaxGapId
    /\ exchange_id' = exchange_id + 1
    /\ last_step' = NoStep
    /\ UNCHANGED <<orderbooks, orderbook_streams, store_lock, wsvars, callvars,
                   rx, histvars, subscribes, fnvars>>

\* Depth updates of one symbol with every first and final id the exchange
\* has reached.
IdDepthUpdates == DepthUpdatesOf({"BTC"}, FanoutUpdateBodies)

\* One caller, one symbol, no failures; updates that overlap the book, that
\* continue it and that leave a gap.
NextIds ==
    \/ \E c \in Subscribers : SubscribeBegin(c, "btc")
    \/ \E c \in Subscribers, body \in FanoutSnapshotBodies : SubscribeFetchOk(c, body)
    \/ \E c \in Subscribers : SubscribeInstall(c)
    \/ \E c \in Subscribers : SubscribePublish(c)
    \/ \E c \in Subscribers : SubscribeHandoff(c)
    \/ WsConnect
    \/ WsSkipActive
    \/ WsSendSubscribe
    \/ \E update \in IdDepthUpdates : WsDepthUpdate(update)
    \/ WsPublish
    \/ ExchangeRunsAhead

SpecIds == Init /\ [][NextIds]_vars

\* The staleness test looks at the final id only.
AcceptanceByFinalId ==
    \A update \in IdDepthUpdates :
        LET k == ToLower(update.symbol)
        IN  HasBook(k) =>
               (Accepts(orderbooks[k], update)
                   <=> update.final_update_id > orderbooks[k].last_update_id)

\* The handling of an update whose final id is above the book's last id
\* applies it, whatever its first id, and starts no fetch of a snapshot.
\* (Written as "the step applied an update and left every caller alone, or
\* it is not the handling of such an update".)
NewerUpdateApplied ==
    \/ /\ \E k \in Keys : /\ Len(accepted'[k]) = Len(accepted[k]) + 1
                          /\ orderbooks'[k].last_update_id = accepted'[k][Len(accepted'[k])]
       /\ UNCHANGED <<pc, snapshot, subscribes>>
    \/ ~ \E update \in IdDepthUpdates :
           /\ HasBook(ToLower(update.symbol))
           /\ update.final_update_id
                 > orderbooks[ToLower(update.symbol)].last_update_id
           /\ WsDepthUpdate(update)

\* C21: a depth update is accepted exactly by its final_update_id being above
\* the book's last_update_id; first_update_id is not consulted, so updates
\* that start below last_update_id and updates that leave a gap above
\* last_update_id + 1 are applied, and no snapshot is fetched again.
C21_FirstIdNotConsulted ==
    /\ [](AcceptanceByFinalId)
    /\ [][NewerUpdateApplied]_vars

\* The book was installed at id 1 and the one update applied since has ids
\* 3..3: the update with id 2 is missing.
C21_Witness ==
    /\ HasBook("btc")
    /\ installed["btc"].last_update_id = 1
    /\ AcceptedSince("btc") = <<3>>
    /\ last_step = [op |-> "apply", first_update_id |-> 3]
    /\ pc["c1"] = "idle"

\* ----------------------------------------------------------------- C22
\* Every reordering of the list u.
Reorderings(u) ==
    { [i \in 1..Len(u) |-> u[f[i]]] :
        f \in { g \in [1..Len(u) -> 1..Len(u)] :
                  \A i, j \in 1..Len(u) : i # j => g[i] # g[j] } }

\* update_levels gives, for every reordering of the list it was called
\* with, the side it gave.
AnyOrderSameSide ==
    \A v \in Reorderings(updates) :
        update_levels(levels_before, v, is_bid) = levels

\* C22 (as claimed): the side that results from update_levels does not
\* depend on the order of the pairs in the update's list.
C22_AsClaimed ==
    called => AnyOrderSameSide

\* C22 (amended): the same, for a list in which no price occurs twice.
C22_OrderOfDistinctPrices ==
    (called /\ \A p \in ListedPrices(updates) : ListedOnce(updates, p))
        => AnyOrderSameSide

\* Two new levels at different prices were inserted by one list into a side
\* that held neither.
C22_Witness ==
    /\ called
    /\ Len(updates) = 2
    /\ ParseF64(updates[1][1]) # ParseF64(updates[2][1])
    /\ Len(levels) = Len(levels_before) + 2

\* ----------------------------------------------------------------- C23
\* No level of the book has quantity 0.
NoZeroLevel(book) ==
    /\ \A i \in 1..Len(book.bids) : book.bids[i].quantity # 0
    /\ \A i \in 1..Len(book.asks) : book.asks[i].quantity # 0

\* C23: no stored book and no book that is sent or about to be sent in an
\* event (the snapshot a subscribe call holds, the clone the connection task
\* holds, the events a channel stores) has a level of quantity 0.
C23_NoZeroQuantityLevel ==
    /\ \A k \in Keys :
          /\ HasBook(k) => NoZeroLevel(orderbooks[k])
          /\ orderbook_streams[k] # NoStream =>
                \A i \in 1..Len(orderbook_streams[k].buf) :
                    NoZeroLevel(orderbook_streams[k].buf[i].orderbook)
    /\ orderbook_clone # NoBook => NoZeroLevel(orderbook_clone)
    /\ \A c \in Clients : snapshot[c] # NoBook => NoZeroLevel(snapshot[c])

\* A snapshot that listed an ask with quantity 0 was installed without it,
\* and an update that listed a bid with quantity 0 and an ask with an
\* unparsable quantity has removed the bids at that price and stored no
\* level for the ask; the clone for the event is that book.
C23_Witness ==
    /\ last_step.op = "apply"
    /\ orderbooks["btc"].bids = <<>>
    /\ orderbooks["btc"].asks = <<OrderBookLevel(0, 1), OrderBookLevel(1, 2)>>
    /\ orderbook_clone = orderbooks["btc"]

\* ----------------------------------------------------------------- C24
\* C24 (as claimed): once a caller's subscribe has returned Ok, the store
\* and the channel map answer a lookup made with the string the caller
\* passed, in whichever letter case it was written (every spelling whose
\* lower-case form is the key the call used).
C24_SameSymbolFinds ==
    \A c \in Clients, symbol \in SymbolArgs :
        (pc[c] = "idle" /\ result[c] = "Ok" /\ ToLower(symbol) = symbol_lower[c]) =>
            /\ Get(orderbooks, symbol, NoBook) # NoBook
            /\ Get(orderbook_streams, symbol, NoStream) # NoStream

\* ----------------------------------------------------------------- C25
\* No subscribe call is under way and the connection task is at its select.
Quiescent ==
    /\ \A c \in Clients : pc[c] = "idle"
    /\ ws_pc = "select"
    /\ store_lock = "free"

\* C25 (as claimed): events are sent in the order in which the store changes
\* behind them took effect, so whenever no operation is in progress the event
\* sent last for a symbol is the one of the book now in the store: same kind,
\* same last_update_id.
C25_LastEventIsStoredBook ==
    Quiescent =>
        \A k \in Keys :
            published[k] # <<>> =>
                LET last == published[k][Len(published[k])]
                IN  /\ HasBook(k)
                    /\ last.event_type = orderbooks[k].update_type
                    /\ last.last_update_id = orderbooks[k].last_update_id

\* ----------------------------------------------------------------- C26
\* The two mutexes and the statements at which the tasks take and release
\* them.  A task that calls lock() on a held mutex waits where it stands.
Lock(t, m, from, to) ==
    /\ at[t] = from
    /\ held[m] = "free"
    /\ held' = [held EXCEPT ![m] = t]
    /\ at' = [at EXCEPT ![t] = to]
    /\ UNCHANGED <<sysvars, levelvars, selectvars>>

Unlock(t, m, from, to) ==
    /\ at[t] = from
    /\ held[m] = t
    /\ held' = [held EXCEPT ![m] = "free"]
    /\ at' = [at EXCEPT ![t] = to]
    /\ UNCHANGED <<sysvars, levelvars, selectvars>>

Resume(t, from, to) ==
    /\ at[t] = from
    /\ at' = [at EXCEPT ![t] = to]
    /\ UNCHANGED <<sysvars, levelvars, selectvars, held>>

\* subscribe: the block that looks up or creates the channel.
SubscribeLockStreams(c) == Lock(c, "streams", "idle", "subscribe_streams")
SubscribeUnlockStreams(c) == Unlock(c, "streams", "subscribe_streams", "subscribe_fetch")
\* fetch_orderbook_snapshot(...).await returns Ok, or Err and subscribe returns.
SubscribeFetched(c) == Resume(c, "subscribe_fetch", "subscribe_fetched")
SubscribeFetchFailed(c) == Resume(c, "subscribe_fetch", "idle")
\* subscribe: the block that inserts the snapshot and sends the event.
SubscribeLockStore(c) == Lock(c, "store", "subscribe_fetched", "subscribe_store")
SubscribeUnlockStore(c) == Unlock(c, "store", "subscribe_store", "subscribe_handoff")
\* ws_sender.send(symbol_lower).await returns.
SubscribeReturns(c) == Resume(c, "subscribe_handoff", "idle")

\* get_orderbook: lock, get, clone; the guard is dropped on return.
GetOrderbookLock(c) == Lock(c, "store", "idle", "get_orderbook_store")
GetOrderbookUnlock(c) == Unlock(c, "store", "get_orderbook_store", "idle")

\* orderbook_stream: lock, get, subscribe; the guard is dropped on return.
OrderbookStreamLock(c) == Lock(c, "streams", "idle", "orderbook_stream_streams")
OrderbookStreamUnlock(c) == Unlock(c, "streams", "orderbook_stream_streams", "idle")

\* run_websocket: select! yields a text frame that is a depth update.
WsFrame == Resume("ws", "select", "handle")
\* handle_ws_message: orderbooks.lock().
WsLockStore == Lock("ws", "store", "handle", "handle_store")
\* No book for the symbol, or a stale update: the function returns and the
\* guard is dropped.
WsReturnEarly == Unlock("ws", "store", "handle_store", "select")

\* A mutant of WsDropStore: the guard of the store is kept while the
\* channel is looked up.
WsDropStoreKept == Resume("ws", "handle_store", "handle_cloned")

\* The update was applied and the book cloned: drop(orderbooks_lock).
WsDropStore == Unlock("ws", "store", "handle_store", "handle_cloned")
\* streams.lock(), the send, and the end of the function.
WsLockStreams == Lock("ws", "streams", "handle_cloned", "handle_streams")
WsUnlockStreams == Unlock("ws", "streams", "handle_streams", "select")

NextLocks ==
    \/ \E c \in Clients : SubscribeLockStreams(c)
    \/ \E c \in Clients : SubscribeUnlockStreams(c)
    \/ \E c \in Clients : SubscribeFetched(c)
    \/ \E c \in Clients : SubscribeFetchFailed(c)
    \/ \E c \in Clients : SubscribeLockStore(c)
    \/ \E c \in Clients : SubscribeUnlockStore(c)
    \/ \E c \in Clients : SubscribeReturns(c)
    \/ \E c \in Clients : GetOrderbookLock(c)
    \/ \E c \in Clients : GetOrderbookUnlock(c)
    \/ \E c \in Clients : OrderbookStreamLock(c)
    \/ \E c \in Clients : OrderbookStreamUnlock(c)
    \/ WsFrame
    \/ WsLockStore
    \/ WsReturnEarly
    \/ WsDropStore
    \/ WsLockStreams
    \/ WsUnlockStreams

SpecLocks == Init /\ [][NextLocks]_vars

Tasks == Clients \cup {"ws"}

\* The statements at which a task is suspended (an .await, or not running).
Suspended == {"idle", "subscribe_fetch", "subscribe_handoff", "select"}

NoTaskHoldsBoth ==
    held.store = "free" \/ held.store # held.streams

NoLockAcrossSuspension ==
    \A t \in Tasks :
        at[t] \in Suspended => (held.store # t /\ held.streams # t)

\* The holder of a mutex is never waiting: its step that releases the mutex
\* can be taken.
HolderCanRelease ==
    /\ \A c \in Clients :
          /\ held.store = c =>
                ENABLED (SubscribeUnlockStore(c) \/ GetOrderbookUnlock(c))
          /\ held.streams = c =>
                ENABLED (SubscribeUnlockStreams(c) \/ OrderbookStreamUnlock(c))
    /\ held.store = "ws" => ENABLED (WsReturnEarly \/ WsDropStore)
    /\ held.streams = "ws" => ENABLED WsUnlockStreams

\* C26: no task holds the store mutex and the channel-map mutex together,
\* no mutex is held by a suspended task, and whoever holds a mutex can go on
\* to release it: the tasks cannot deadlock on the two mutexes.
C26_NoDeadlockOnLocks ==
    /\ NoTaskHoldsBoth
    /\ NoLockAcrossSuspension
    /\ HolderCanRelease

\* Both mutexes are held, by different tasks, while a third task waits for
\* the store.
C26_Witness ==
    /\ held.store = "c1" /\ at["c1"] = "subscribe_store"
    /\ held.streams = "ws" /\ at["ws"] = "handle_streams"
    /\ at["c2"] = "subscribe_fetched"

\* ----------------------------------------------------------------- C27
\* The step in which a subscribe call returns from its hand-off returns
\* ChannelError exactly when the connection task has ended; no other step
\* gives ChannelError; and the call that gets it has installed its snapshot
\* and sent its Snapshot event before.
HandoffReturnStep ==
    \A c \in Clients :
        /\ (pc[c] = "handoff" /\ pc'[c] = "idle") =>
              /\ result'[c] = "ChannelError" <=> ws_state = "closed"
              /\ result'[c] = "Ok" <=> ws_state # "closed"
        /\ (result'[c] = "ChannelError" /\ result[c] # "ChannelError") =>
              /\ pc[c] = "handoff"
              /\ snapshot[c] # NoBook
              /\ HasBook(symbol_lower[c])
              /\ my_event[c] \in 1..Len(published[symbol_lower[c]])
              /\ published[symbol_lower[c]][my_event[c]].event_type = "Snapshot"
              /\ published[symbol_lower[c]][my_event[c]].last_update_id
                    = snapshot[c].last_update_id
              /\ UNCHANGED <<orderbooks, orderbook_streams, published, ws_queue>>

\* C27: subscribe returns ChannelError exactly when its fetch succeeded and
\* the symbol could not be handed over because the connection task has
\* ended; by then the snapshot is in the store and its Snapshot event sent.
C27_ChannelErrorAfterInstall ==
    [][HandoffReturnStep]_vars

\* The connection never opened; the call got ChannelError, and its snapshot
\* is in the store and was sent.
C27_Witness ==
    /\ result["c1"] = "ChannelError"
    /\ sent_frames = <<>>
    /\ HasBook("btc")
    /\ orderbooks["btc"] = snapshot["c1"]
    /\ published["btc"] # <<>>

\* ----------------------------------------------------------------- C28
\* The frames that arrive on the socket: depth updates (what an update says
\* is drawn when it is handled).
SelectFrames == {"depth_update"}

\* A frame arrives and waits in the socket until the loop takes it.
FrameArrives(frame) ==
    /\ ws_state = "open"
    /\ Len(inbox) < InboxCapacity
    /\ inbox' = Append(inbox, frame)
    /\ UNCHANGED <<sysvars, levelvars, lockvars, takes>>

\* select! takes the branch of ws_reader.next(): the oldest waiting frame is
\* handled.
WsTakeFrame ==
    /\ inbox # <<>>
    /\ \E update \in FanoutDepthUpdates : HandleDepthUpdate(update)
    /\ inbox' = Tail(inbox)
    /\ takes' = 1 - takes
    /\ UNCHANGED <<levelvars, lockvars>>

\* select! takes the branch of ws_receiver.recv().
WsTakeRequest == WsSkipActive \/ WsSendSubscribe

NextSelect ==
    \/ \E c \in Subscribers : SubscribeBegin(c, "btc")
    \/ \E c \in Subscribers, body \in FanoutSnapshotBodies : SubscribeFetchOk(c, body)
    \/ \E c \in Subscribers : SubscribeInstall(c)
    \/ \E c \in Subscribers : SubscribePublish(c)
    \/ \E c \in Subscribers : SubscribeHandoff(c)
    \/ WsConnect
    \/ WsSkipActive
    \/ WsSendSubscribe
    \/ \E frame \in SelectFrames : FrameArrives(frame)
    \/ WsTakeFrame
    \/ WsPublish
    \/ WsClose
    \/ ExchangeAdvance

\* select! without `biased` polls its branches in random order, so a branch
\* that is ready again and again is taken; handle_ws_message runs on to its
\* end; a subscribe call that holds the store lock releases it.
FairSelect ==
    /\ SF_vars(WsTakeRequest)
    /\ SF_vars(WsTakeFrame)
    /\ WF_vars(WsPublish)
    /\ \A c \in Subscribers : WF_vars(SubscribePublish(c))

SpecSelect == Init /\ [][NextSelect]_vars /\ FairSelect

\* C28: while the connection stays open, a symbol handed to the connection
\* task is eventually taken from the queue (sent as a SUBSCRIBE frame or
\* skipped), and a frame that has arrived is eventually handled, also when
\* the other source is ready all the time.
C28_BothSourcesServed ==
    /\ (ws_state = "open" /\ ws_queue # <<>>) ~> (ws_queue = <<>>)
    /\ \A b \in {0, 1} :
          (ws_state = "open" /\ inbox # <<>> /\ takes = b)
              ~> (takes # b \/ ws_state # "open")

\* Both sources are ready at once, the socket as full as it gets, and each
\* has been served before.
C28_Witness ==
    /\ ws_state = "open" /\ ws_pc = "select"
    /\ ws_queue # <<>>
    /\ Len(inbox) = InboxCapacity
    /\ sent_frames # <<>>
    /\ takes = 1

=============================================================================
